---- MODULE Spec2Model ----
(***************************************************************************)
(* Model of biogo's Needleman-Wunsch aligner for letter sequences          *)
(* (align/nw_letters.go, NW.alignLetters) and of the concurrent Promise    *)
(* (Promise.Fulfill / Promise.Wait).                                       *)
(*                                                                         *)
(* Indices follow the Go code: sequences, matrix rows and the flat table   *)
(* are 0-based there; the accessors Letter, Cost and table[p] hide the     *)
(* 1-based TLA+ sequences.  In the code r and c are the sequence lengths   *)
(* plus one (the grid's row and column counts); the operators R and C      *)
(* keep that meaning.                                                      *)
(***************************************************************************)
EXTENDS Integers, Sequences, FiniteSets, TLC

VARIABLES
    \* ---- alignLetters: inputs
    rSeq, qSeq,      \* the reference and query letters
    alphaLen,        \* number of letters of the alphabet passed to the call
    a,               \* the NW scoring matrix, a sequence of rows
    \* ---- alignLetters: locals
    pc,              \* position in alignLetters
    table,           \* the flat score grid, [0..r*c-1 -> Int], <<>> before make
    i, j, maxI, maxJ, score, last,
    aln,             \* the segments appended so far / returned
    moves,           \* history: the traceback iterations taken, newest last
    \* ---- Promise
    prom,            \* the Promise: flags, mutex holder, buffered channel
    procs,           \* per goroutine: operation, position, locals
    hist             \* history: first fulfilled value, completed calls

alignVars == <<rSeq, qSeq, alphaLen, a, pc, table, i, j, maxI, maxJ, score, last, aln, moves>>
promVars == <<prom, procs, hist>>
vars == <<rSeq, qSeq, alphaLen, a, pc, table, i, j, maxI, maxJ, score, last, aln, moves,
          prom, procs, hist>>

\* ---------------------------------------------------------------- bounds
\* Longest reference / query sequence explored.
MaxLen == 3

\* The letters that occur in sequences and the alphabet sizes explored: an
\* alphabet of size k recognises the letters 0..k-1, so with k = 1 the
\* letter 1 is unrecognised.
Letters == {0, 1}
AlphaSizes == {1, 2}
\* Entries of the scoring matrices explored.  Scores are sums of at most
\* 2 * MaxLen such entries, far inside Go's int, so no width is modelled.
Costs == {-1, 0, 1}

\* ------------------------------------------------------------- directions
diag == "diag"
up == "up"
left == "left"
\* Value of `last` before alignLetters declares it.
NoDir == "-"

\* ---------------------------------------------------------------- helpers
SeqsUpTo(S, n) == UNION {[1..m -> S] : m \in 0..n}

\* index := alpha.LetterIndex(): the letter's row/column, negative when the
\* alphabet does not recognise it.
LetterIndex(k, l) == IF l < k THEN l ELSE -1

\* s[n] of the Go code (0-based).
Letter(s, n) == s[n + 1]

R == Len(rSeq) + 1
C == Len(qSeq) + 1
\* gap := len(a) - 1
Gap == Len(a) - 1

\* Whether a[x][y] is inside the slice bounds (Go panics otherwise).
InRange(x, y) ==
    /\ x >= 0 /\ x < Len(a)
    /\ y >= 0 /\ y < Len(a[x + 1])

\* a[x][y] of the Go code.
Cost(x, y) == a[x + 1][y + 1]

\* max(&scores): the largest of the three candidate scores.
Max3(s) == CHOOSE m \in {s[diag], s[up], s[left]} :
              \A d \in {diag, up, left} : s[d] <= m

\* &featPair{a: feature{start, end}, b: feature{start, end}, score}
FeatPair(as, ae, bs, be, sc) ==
    [aStart |-> as, aEnd |-> ae, bStart |-> bs, bEnd |-> be, score |-> sc]

\* Mutant of ReverseAln: the list is returned in the order it was built.
ReverseAlnSkipped(s) == s

\* for i, j := 0, len(aln)-1; i < j; ... { aln[i], aln[j] = aln[j], aln[i] }
ReverseAln(s) == [n \in 1..Len(s) |-> s[Len(s) + 1 - n]]

\* ---------------------------------------------------------- input matrices
\* An n x n matrix whose last row and column hold the gap costs: m on the
\* diagonal, u above it, l below it, gr for a letter against a gap in the
\* query (a[x][gap]) and gq for a gap in the reference (a[gap][y]).
CostMatrix(n, m, u, l, gr, gq) ==
    [x \in 1..n |-> [y \in 1..n |->
        IF x = n /\ y = n THEN 0
        ELSE IF x = n THEN gq
        ELSE IF y = n THEN gr
        ELSE IF x = y THEN m
        ELSE IF x < y THEN u ELSE l]]

\* match = +1, mismatch = 0, gap = 0
IdentityMatrix(n) == CostMatrix(n, 1, 0, 0, 0, 0)

\* The matrices sized for an alphabet of k letters.
SizedMatrices(k) ==
    {CostMatrix(k + 1, m, u, l, gr, gq) : m \in Costs, u \in Costs, l \in Costs,
                                          gr \in Costs, gq \in Costs}

\* Row x of M (1-based) shortened by its last entry.
Shorten(M, x) == [M EXCEPT ![x] = SubSeq(M[x], 1, Len(M[x]) - 1)]

\* Square matrices of another size than k+1, and matrices with one row of
\* the wrong length.
MisshapenMatrices(k) ==
    {IdentityMatrix(n) : n \in (0..4) \ {k + 1}}
    \cup {Shorten(IdentityMatrix(n), x) : <<n, x>> \in {p \in (1..3) \X (1..3) : p[2] <= p[1]}}

\* Every row as long as the matrix has rows.
IsSquare(M) == \A x \in 1..Len(M) : Len(M[x]) = Len(M)
\* The matrix is square and sized alphabet + 1.
ValidMatrix == IsSquare(a) /\ Len(a) = alphaLen + 1
\* Every letter of both sequences is recognised by the alphabet.
AllRecognised ==
    /\ \A n \in 1..Len(rSeq) : LetterIndex(alphaLen, rSeq[n]) >= 0
    /\ \A n \in 1..Len(qSeq) : LetterIndex(alphaLen, qSeq[n]) >= 0
ValidInput == ValidMatrix /\ AllRecognised

\* ------------------------------------------------------------------- Init
PromiseIdle ==
    /\ prom = [mutable |-> FALSE, relay |-> FALSE, m |-> 0, message |-> <<>>]
    /\ procs = <<>>
    /\ hist = <<>>

Init ==
    /\ alphaLen \in AlphaSizes
    /\ rSeq \in SeqsUpTo(Letters, MaxLen)
    /\ qSeq \in SeqsUpTo(Letters, MaxLen)
    /\ a \in SizedMatrices(alphaLen) \cup MisshapenMatrices(alphaLen)
    /\ pc = "validate"
    /\ table = <<>>
    /\ i = 0 /\ j = 0 /\ maxI = 0 /\ maxJ = 0
    /\ score = 0
    /\ last = NoDir
    /\ aln = <<>>
    /\ moves = <<>>
    /\ PromiseIdle

\* ------------------------------------------------------------- validation
\* for _, row := range a { if len(row) != gap+1 { return nil, ErrMatrixNotSquare } }
MatrixNotSquare == \E x \in 1..Len(a) : Len(a[x]) # Gap + 1

Validate ==
    /\ pc = "validate"
    /\ pc' = IF MatrixNotSquare THEN "ErrMatrixNotSquare" ELSE "row0"
    /\ UNCHANGED <<rSeq, qSeq, alphaLen, a, table, i, j, maxI, maxJ, score, last, aln, moves>>
    /\ UNCHANGED promVars

\* ------------------------------------------------------ grid: first row
\* table := make([]int, r*c)
MakeTable == [p \in 0..(R * C - 1) |-> 0]

\* for j := range table[1:c] { table[j+1] = table[j] + a[gap][index[qSeq[j]]] }
RECURSIVE Row0From(_, _)
Row0From(t, n) ==
    IF n >= C - 1 THEN t
    ELSE Row0From([t EXCEPT ![n + 1] =
                      t[n] + Cost(Gap, LetterIndex(alphaLen, Letter(qSeq, n)))], n + 1)

Row0Panics == \E n \in 0..(C - 2) : ~InRange(Gap, LetterIndex(alphaLen, Letter(qSeq, n)))

InitRow0 ==
    /\ pc = "row0"
    /\ IF Row0Panics
         THEN pc' = "panic" /\ table' = MakeTable
         ELSE pc' = "col0" /\ table' = Row0From(MakeTable, 0)
    /\ UNCHANGED <<rSeq, qSeq, alphaLen, a, i, j, maxI, maxJ, score, last, aln, moves>>
    /\ UNCHANGED promVars

\* ---------------------------------------------------- grid: first column
\* for i := 1; i < r; i++ { table[i*c] = table[(i-1)*c] + a[index[rSeq[i-1]]][gap] }
RECURSIVE Col0From(_, _)
Col0From(t, n) ==
    IF n >= R THEN t
    ELSE Col0From([t EXCEPT ![n * C] =
                      t[(n - 1) * C] + Cost(LetterIndex(alphaLen, Letter(rSeq, n - 1)), Gap)], n + 1)

Col0Panics == \E n \in 1..(R - 1) : ~InRange(LetterIndex(alphaLen, Letter(rSeq, n - 1)), Gap)

InitCol0 ==
    /\ pc = "col0"
    /\ IF Col0Panics
         THEN pc' = "panic" /\ table' = table
         ELSE pc' = "fill" /\ table' = Col0From(table, 1)
    /\ UNCHANGED <<rSeq, qSeq, alphaLen, a, i, j, maxI, maxJ, score, last, aln, moves>>
    /\ UNCHANGED promVars

\* ------------------------------------------------------- grid: interior
\* rVal = index[rSeq[i-1]], qVal = index[qSeq[j-1]]
RVal(ii) == LetterIndex(alphaLen, Letter(rSeq, ii - 1))
QVal(jj) == LetterIndex(alphaLen, Letter(qSeq, jj - 1))

\* diag: table[p-c-1] + a[rVal][qVal]
FillDiag(t, ii, jj) == t[ii * C + jj - C - 1] + Cost(RVal(ii), QVal(jj))
\* Mutant of FillUp: the gap cost is read from the gap row, not the gap column.
FillUpGapRow(t, ii, jj) == t[ii * C + jj - C] + Cost(Gap, QVal(jj))

\* up: table[p-c] + a[rVal][gap]
FillUp(t, ii, jj) == t[ii * C + jj - C] + Cost(RVal(ii), Gap)
\* left: table[p-1] + a[gap][qVal]
FillLeft(t, ii, jj) == t[ii * C + jj - 1] + Cost(Gap, QVal(jj))

\* scores = [3]int{diag: ..., up: ..., left: ...}
Scores(t, ii, jj) ==
    [diag |-> FillDiag(t, ii, jj), up |-> FillUp(t, ii, jj), left |-> FillLeft(t, ii, jj)]

\* The body of the inner loop for one cell.
FillCell(t, ii, jj) ==
    IF RVal(ii) < 0 \/ QVal(jj) < 0
      THEN t
      ELSE [t EXCEPT ![ii * C + jj] = Max3(Scores(t, ii, jj))]

\* for i := 1; i < r; i++ { for j := 1; j < c; j++ { ... } }
RECURSIVE FillFrom(_, _, _)
FillFrom(t, ii, jj) ==
    IF ii >= R THEN t
    ELSE IF jj >= C THEN FillFrom(t, ii + 1, 1)
    ELSE FillFrom(FillCell(t, ii, jj), ii, jj + 1)

FillPanics ==
    \E ii \in 1..(R - 1), jj \in 1..(C - 1) :
        /\ RVal(ii) >= 0 /\ QVal(jj) >= 0
        /\ ~(InRange(RVal(ii), QVal(jj)) /\ InRange(RVal(ii), Gap) /\ InRange(Gap, QVal(jj)))

Fill ==
    /\ pc = "fill"
    /\ IF FillPanics
         THEN pc' = "panic" /\ table' = table
         ELSE pc' = "begin" /\ table' = FillFrom(table, 1, 1)
    /\ UNCHANGED <<rSeq, qSeq, alphaLen, a, i, j, maxI, maxJ, score, last, aln, moves>>
    /\ UNCHANGED promVars

\* -------------------------------------------------------------- traceback
\* Mutant of InitLast: the traceback starts from a value that is no direction.
InitLastSentinel == NoDir

\* score, last := 0, diag
InitLast == diag

\* var aln []feat.Pair; score, last := 0, diag; i, j := r-1, c-1; maxI, maxJ := i, j
BeginTrace ==
    /\ pc = "begin"
    /\ pc' = "trace"
    /\ aln' = <<>>
    /\ score' = 0
    /\ last' = InitLast
    /\ i' = R - 1 /\ j' = C - 1
    /\ maxI' = R - 1 /\ maxJ' = C - 1
    /\ UNCHANGED <<rSeq, qSeq, alphaLen, a, table, moves>>
    /\ UNCHANGED promVars

\* Mutant of TraceDiag: the matrix is read transposed.
TraceDiagTransposed(ii, jj) == table[ii * C + jj - C - 1] + Cost(QVal(jj), RVal(ii))

\* case table[p-c-1] + a[rVal][qVal]:
TraceDiag(ii, jj) == table[ii * C + jj - C - 1] + Cost(RVal(ii), QVal(jj))
\* case table[p-c] + a[rVal][gap]:
TraceUp(ii, jj) == table[ii * C + jj - C] + Cost(RVal(ii), Gap)
\* case table[p-1] + a[gap][qVal]:
TraceLeft(ii, jj) == table[ii * C + jj - 1] + Cost(Gap, QVal(jj))

\* Mutant of Chosen: the up case is tried before the diag case.
ChosenUpFirst(ii, jj) ==
    IF table[ii * C + jj] = TraceUp(ii, jj) THEN up
    ELSE IF table[ii * C + jj] = TraceDiag(ii, jj) THEN diag
    ELSE IF table[ii * C + jj] = TraceLeft(ii, jj) THEN left
    ELSE NoDir

\* switch table[p] { case diag..: case up..: case left..: default: panic }
\* The first case, in source order, whose expression equals table[p].
Chosen(ii, jj) ==
    IF table[ii * C + jj] = TraceDiag(ii, jj) THEN diag
    ELSE IF table[ii * C + jj] = TraceUp(ii, jj) THEN up
    ELSE IF table[ii * C + jj] = TraceLeft(ii, jj) THEN left
    ELSE NoDir

\* Mutant of PrevI: an up move forgets its i--.
PrevIUpStalls(d, ii) == IF d = diag THEN ii - 1 ELSE ii

\* The cell the move d leads to from (ii, jj): i--, j-- / i-- / j--
PrevI(d, ii) == IF d = left THEN ii ELSE ii - 1
PrevJ(d, jj) == IF d = up THEN jj ELSE jj - 1

\* Mutant of Closes: the open segment is closed at every move.
ClosesAlways(d) == TRUE

\* if last != d { aln = append(aln, &featPair{...}); maxI, maxJ = i, j; score = 0 }
Closes(d) == last # d

\* One iteration of  for i > 0 && j > 0 { ... }
TraceStep ==
    /\ pc = "trace"
    /\ i > 0 /\ j > 0
    /\ IF RVal(i) < 0 \/ QVal(j) < 0
         THEN \* continue
              UNCHANGED <<pc, i, j, maxI, maxJ, score, last, aln, moves>>
         ELSE LET d == Chosen(i, j)
                  p == i * C + j
                  q == PrevI(d, i) * C + PrevJ(d, j)
              IN  IF d = NoDir
                    THEN /\ pc' = "nopath"
                         /\ UNCHANGED <<i, j, maxI, maxJ, score, last, aln, moves>>
                    ELSE /\ pc' = pc
                         /\ aln' = IF Closes(d)
                                     THEN Append(aln, FeatPair(i, maxI, j, maxJ, score))
                                     ELSE aln
                         /\ maxI' = IF Closes(d) THEN i ELSE maxI
                         /\ maxJ' = IF Closes(d) THEN j ELSE maxJ
                         /\ score' = (IF Closes(d) THEN 0 ELSE score) + table[p] - table[q]
                         /\ i' = PrevI(d, i)
                         /\ j' = PrevJ(d, j)
                         /\ last' = d
                         /\ moves' = Append(moves, [i |-> i, j |-> j, dir |-> d,
                                                    closed |-> Closes(d)])
    /\ UNCHANGED <<rSeq, qSeq, alphaLen, a, table>>
    /\ UNCHANGED promVars

\* Mutant of HasLeading: only a leftover reference prefix gets a block.
HasLeadingReferenceOnly(ii, jj) == ii > jj

\* Whether the leading block is appended:  if i != j { ... }
HasLeading(ii, jj) == ii # jj

\* After the loop: append the open segment, the leading block when i != j,
\* then reverse aln in place and return it.
Finish ==
    /\ pc = "trace"
    /\ ~(i > 0 /\ j > 0)
    /\ LET open == Append(aln, FeatPair(i, maxI, j, maxJ, score))
           all == IF HasLeading(i, j)
                    THEN Append(open, FeatPair(0, i, 0, j, table[i * C + j]))
                    ELSE open
       IN  aln' = ReverseAln(all)
    /\ pc' = "done"
    /\ UNCHANGED <<rSeq, qSeq, alphaLen, a, table, i, j, maxI, maxJ, score, last, moves>>
    /\ UNCHANGED promVars

AlignNext == Validate \/ InitRow0 \/ InitCol0 \/ Fill \/ BeginTrace \/ TraceStep \/ Finish

Spec == Init /\ [][AlignNext]_vars

\* ---------------------------------------------------------------- Promise
\* Promise.Fulfill and Promise.Wait called concurrently on one Promise.
\* Fulfill holds p.m from Lock to its deferred Unlock; Wait takes no lock
\* and touches only the channel.  Fail, Recover and Break are not called.
\*
\* Goroutines sharing one Promise, the values they fulfil it with, and the
\* number of Fulfill / Wait calls made in a run.
NumProcs == 3
NumValues == 2
MaxCalls == 4

Procs == 1..NumProcs
Values == 1..NumValues

\* The zero Result: Value nil (0), Err nil.
ZeroResult == [Value |-> 0, Err |-> "nil"]

\* The alignment is not running.
AlignIdle ==
    /\ rSeq = <<>> /\ qSeq = <<>> /\ alphaLen = 0 /\ a = <<>>
    /\ pc = "idle" /\ table = <<>>
    /\ i = 0 /\ j = 0 /\ maxI = 0 /\ maxJ = 0 /\ score = 0
    /\ last = NoDir /\ aln = <<>> /\ moves = <<>>

\* NewPromise(mutable, recoverable, relay): message is make(chan Result, 1).
NewPromise(mutable, relay) ==
    [mutable |-> mutable, relay |-> relay, m |-> 0, message |-> <<>>]

InitPromise ==
    /\ AlignIdle
    /\ \E mutable \in BOOLEAN, relay \in BOOLEAN : prom = NewPromise(mutable, relay)
    /\ procs = [p \in Procs |-> [pc |-> "idle", op |-> "none", arg |-> 0,
                                 r |-> ZeroResult, err |-> "nil", after |-> FALSE]]
    /\ hist = [fulfilled |-> FALSE, first |-> 0, calls |-> 0]

\* select { case message = <-p.message: set = true; default: }
\* The Result taken, whether one was taken, and the channel afterwards.
messageState(ch) ==
    IF Len(ch) > 0
      THEN [message |-> Head(ch), set |-> TRUE, rest |-> Tail(ch)]
      ELSE [message |-> ZeroResult, set |-> FALSE, rest |-> ch]

\* The branch of fulfill that accepts the value:  if !set || p.mutable
Accepts(set) == ~set \/ prom.mutable

\* Promise.fulfill between messageState and the send: the Result to send
\* and the error to return.
fulfill(value, r, set) ==
    LET err1 == IF r.Err # "nil" THEN "fulfill a failed promise"
                ELSE IF Accepts(set) THEN "nil"
                ELSE "already set immutable promise"
        r1 == IF r.Err = "nil" /\ Accepts(set) THEN [r EXCEPT !.Value = value] ELSE r
    IN  IF err1 # "nil" /\ prom.relay
          THEN IF r1.Err # "nil"
                 THEN [r |-> r1, err |-> "already failed - cannot relay"]
                 ELSE [r |-> [r1 EXCEPT !.Err = err1], err |-> err1]
          ELSE [r |-> r1, err |-> err1]

\* A goroutine calls p.Fulfill(v) or p.Wait().
Call(p) ==
    /\ procs[p].pc \in {"idle", "returned"}
    /\ hist.calls < MaxCalls
    /\ \E op \in {"Fulfill", "Wait"} :
         \E v \in (IF op = "Fulfill" THEN Values ELSE {0}) :
            procs' = [procs EXCEPT ![p] =
                        [pc |-> IF op = "Fulfill" THEN "lock" ELSE "recv",
                         op |-> op, arg |-> v, r |-> ZeroResult, err |-> "nil",
                         after |-> hist.fulfilled]]
    /\ hist' = [hist EXCEPT !.calls = @ + 1]
    /\ UNCHANGED prom
    /\ UNCHANGED alignVars

\* Fulfill: p.m.Lock()
FulfillLock(p) ==
    /\ procs[p].pc = "lock"
    /\ prom.m = 0
    /\ prom' = [prom EXCEPT !.m = p]
    /\ procs' = [procs EXCEPT ![p].pc = "state"]
    /\ UNCHANGED hist
    /\ UNCHANGED alignVars

\* fulfill: r, set := p.messageState() and the branches up to the send
FulfillState(p) ==
    /\ procs[p].pc = "state"
    /\ LET ms == messageState(prom.message)
           f == fulfill(procs[p].arg, ms.message, ms.set)
       IN  /\ prom' = [prom EXCEPT !.message = ms.rest]
           /\ procs' = [procs EXCEPT ![p].pc = "send", ![p].r = f.r, ![p].err = f.err]
    /\ UNCHANGED hist
    /\ UNCHANGED alignVars

\* fulfill: p.message <- r   (blocks while the buffer of one is full)
FulfillSend(p) ==
    /\ procs[p].pc = "send"
    /\ Len(prom.message) < 1
    /\ prom' = [prom EXCEPT !.message = Append(@, procs[p].r)]
    /\ procs' = [procs EXCEPT ![p].pc = "unlock"]
    /\ hist' = IF procs[p].err = "nil" /\ hist.first = 0
                 THEN [hist EXCEPT !.first = procs[p].r.Value]
                 ELSE hist
    /\ UNCHANGED alignVars

\* Fulfill: the deferred p.m.Unlock() and the return of err
FulfillReturn(p) ==
    /\ procs[p].pc = "unlock"
    /\ prom' = [prom EXCEPT !.m = 0]
    /\ procs' = [procs EXCEPT ![p].pc = "returned"]
    /\ hist' = IF procs[p].err = "nil" THEN [hist EXCEPT !.fulfilled = TRUE] ELSE hist
    /\ UNCHANGED alignVars

\* Wait: r := <-p.message   (blocks while the channel is empty)
WaitReceive(p) ==
    /\ procs[p].pc = "recv"
    /\ Len(prom.message) > 0
    /\ prom' = [prom EXCEPT !.message = Tail(@)]
    /\ procs' = [procs EXCEPT ![p].pc = "resend", ![p].r = Head(prom.message)]
    /\ UNCHANGED hist
    /\ UNCHANGED alignVars

\* Wait: p.message <- r, then f <- r; close(f); return f
WaitReturn(p) ==
    /\ procs[p].pc = "resend"
    /\ Len(prom.message) < 1
    /\ prom' = [prom EXCEPT !.message = Append(@, procs[p].r)]
    /\ procs' = [procs EXCEPT ![p].pc = "returned"]
    /\ UNCHANGED hist
    /\ UNCHANGED alignVars

PromiseNext ==
    \E p \in Procs :
        \/ Call(p)
        \/ FulfillLock(p)
        \/ FulfillState(p)
        \/ FulfillSend(p)
        \/ FulfillReturn(p)
        \/ WaitReceive(p)
        \/ WaitReturn(p)

SpecPromise == InitPromise /\ [][PromiseNext]_vars

\* C8: for an immutable Promise, under any interleaving of Fulfill and Wait
\* calls from several goroutines, every Fulfill issued after the promise has
\* been fulfilled returns an error and every Wait delivers the first
\* fulfilled value.
C8_PromiseSafe ==
    ~prom.mutable =>
        \A p \in Procs :
            procs[p].pc = "returned" =>
                /\ (procs[p].op = "Fulfill" /\ procs[p].after) => procs[p].err # "nil"
                /\ procs[p].op = "Wait" => procs[p].r.Value = hist.first

\* ------------------------------------------------- properties: alignLetters
\* G[ii][jj] of the grid built by the call.
G(ii, jj) == table[ii * C + jj]

RECURSIVE SumScores(_)
SumScores(s) == IF s = <<>> THEN 0 ELSE Head(s).score + SumScores(Tail(s))

\* C1: for every valid input the scores of the returned segments, the
\* leading block included when it is emitted, add up to the final grid
\* cell G[r][c].
C1_SumEqualsFinalCell ==
    (pc = "done" /\ ValidInput) => SumScores(aln) = G(R - 1, C - 1)

\* A valid call that returned a leading block with a non-zero score after
\* at least two other segments.
C1_Witness ==
    /\ pc = "done" /\ ValidInput
    /\ i # j
    /\ Len(aln) >= 3
    /\ aln[1].score # 0
    /\ aln[2].score # 0
    /\ G(R - 1, C - 1) # 0

\* C2: for every valid input the returned segments are in ascending order
\* and form a chain from (0, 0) to (r, c): the first starts at (0, 0), each
\* later one starts where the previous one ends, the last ends at (r, c).
C2_SegmentsChain ==
    (pc = "done" /\ ValidInput) =>
        /\ Len(aln) >= 1
        /\ aln[1].aStart = 0 /\ aln[1].bStart = 0
        /\ aln[Len(aln)].aEnd = Len(rSeq) /\ aln[Len(aln)].bEnd = Len(qSeq)
        /\ \A n \in 1..Len(aln) :
              aln[n].aStart <= aln[n].aEnd /\ aln[n].bStart <= aln[n].bEnd
        /\ \A n \in 1..(Len(aln) - 1) :
              aln[n + 1].aStart = aln[n].aEnd /\ aln[n + 1].bStart = aln[n].bEnd

\* A valid call that returned at least three segments, the first a
\* non-empty leading block.
C2_Witness ==
    /\ pc = "done" /\ ValidInput
    /\ Len(aln) >= 3
    /\ i # j
    /\ aln[2].aStart < aln[2].aEnd

\* The total costs of all global alignments of the first ii reference
\* letters with the first jj query letters: every monotone path of diag, up
\* and left moves from (0, 0) to (ii, jj), built up cell by cell.
PathCell(f, ii, jj) ==
    IF ii = 0 /\ jj = 0 THEN {0}
    ELSE (IF ii > 0 /\ jj > 0
            THEN {s + Cost(RVal(ii), QVal(jj)) : s \in f[<<ii - 1, jj - 1>>]} ELSE {})
         \cup (IF ii > 0 THEN {s + Cost(RVal(ii), Gap) : s \in f[<<ii - 1, jj>>]} ELSE {})
         \cup (IF jj > 0 THEN {s + Cost(Gap, QVal(jj)) : s \in f[<<ii, jj - 1>>]} ELSE {})

RECURSIVE PathsFrom(_, _, _)
PathsFrom(f, ii, jj) ==
    IF ii >= R THEN f
    ELSE IF jj >= C THEN PathsFrom(f, ii + 1, 0)
    ELSE PathsFrom([f EXCEPT ![<<ii, jj>>] = PathCell(f, ii, jj)], ii, jj + 1)

AlignmentScores == PathsFrom([cell \in (0..(R - 1)) \X (0..(C - 1)) |-> {}], 0, 0)

Best(S) == CHOOSE m \in S : \A s \in S : s <= m

\* C3: for every valid input each grid cell G[i][j] is the largest total
\* cost of any global alignment of the first i reference letters with the
\* first j query letters, and the returned segments add up to the optimum.
C3_GridIsOptimal ==
    /\ (pc = "begin" /\ ValidInput) =>
          LET paths == AlignmentScores
          IN  \A ii \in 0..(R - 1), jj \in 0..(C - 1) : G(ii, jj) = Best(paths[<<ii, jj>>])
    /\ (pc = "done" /\ ValidInput) =>
          SumScores(aln) = Best(AlignmentScores[<<R - 1, C - 1>>])

\* A grid just built for two full-length sequences where the optimum of the
\* final cell is not the score of the all-diagonal alignment.
C3_Witness ==
    /\ pc = "begin" /\ ValidInput
    /\ Len(rSeq) = MaxLen /\ Len(qSeq) = MaxLen
    /\ Cardinality(AlignmentScores[<<R - 1, C - 1>>]) >= 3
    /\ G(R - 1, C - 1) > G(R - 2, C - 2) + Cost(RVal(R - 1), QVal(C - 1))

\* C4: alignLetters fails with ErrMatrixNotSquare, before any grid work,
\* whenever some row's length differs from the row count or the row count
\* is not the alphabet's size plus one.
C4_RejectsMisshapenMatrix ==
    (pc # "validate" /\ ~ValidMatrix) => (pc = "ErrMatrixNotSquare" /\ table = <<>>)

\* The three candidates of a cell, by direction, as the traceback reads them.
Candidate(d, ii, jj) ==
    IF d = diag THEN TraceDiag(ii, jj)
    ELSE IF d = up THEN TraceUp(ii, jj)
    ELSE TraceLeft(ii, jj)

\* The directions the rule prefers to d.
Preferred(d) == IF d = diag THEN {} ELSE IF d = up THEN {diag} ELSE {diag, up}

\* The starts of the segments the recorded path implies: the cell of every
\* move whose direction differs from the one before it (from diag for the
\* first move), the cell where the walk stopped, and (0, 0) for a leading
\* block.
PathStarts ==
    {<<moves[n].i, moves[n].j>> : n \in {k \in 1..Len(moves) :
          moves[k].dir # (IF k = 1 THEN diag ELSE moves[k - 1].dir)}}
    \cup {<<i, j>>}
    \cup (IF i # j THEN {<<0, 0>>} ELSE {})

\* C5: at every cell the traceback visits, the move taken reproduces the
\* stored score and no direction preferred to it (diag before up before
\* left) does; the returned segments start exactly where the path chosen
\* by this rule changes direction.
C5_TieBreakOrder ==
    /\ \A n \in 1..Len(moves) :
          LET m == moves[n]
          IN  /\ Candidate(m.dir, m.i, m.j) = G(m.i, m.j)
              /\ \A d \in Preferred(m.dir) : Candidate(d, m.i, m.j) # G(m.i, m.j)
    /\ pc = "done" =>
          {<<aln[n].aStart, aln[n].bStart>> : n \in 1..Len(aln)} = PathStarts

\* A finished valid call whose path passed a cell where diag and up tied and
\* diag was taken, and a cell where up and left tied without diag and up
\* was taken.
C5_Witness ==
    /\ pc = "done" /\ ValidInput
    /\ \E n \in 1..Len(moves) :
          /\ moves[n].dir = diag
          /\ TraceUp(moves[n].i, moves[n].j) = G(moves[n].i, moves[n].j)
    /\ \E n \in 1..Len(moves) :
          /\ moves[n].dir = up
          /\ TraceLeft(moves[n].i, moves[n].j) = G(moves[n].i, moves[n].j)

\* C6: aligning a sequence of n recognised letters against itself with the
\* identity matrix returns exactly one segment: reference [0, n), query
\* [0, n), score n.
C6_SelfAlignment ==
    (/\ pc = "done" /\ ValidInput
     /\ rSeq = qSeq
     /\ a = IdentityMatrix(alphaLen + 1))
    => aln = <<FeatPair(0, Len(rSeq), 0, Len(rSeq), Len(rSeq))>>

\* A finished self-alignment of a full-length sequence of two different
\* letters.
C6_Witness ==
    /\ pc = "done" /\ ValidInput
    /\ rSeq = qSeq
    /\ a = IdentityMatrix(alphaLen + 1)
    /\ Len(rSeq) = MaxLen
    /\ \E n \in 1..Len(rSeq) : rSeq[n] # rSeq[1]
    /\ aln[1].score = MaxLen

\* C7: for every valid input the traceback never takes the `no path`
\* branch: at every cell it visits one of the three candidates reproduces
\* the stored score.
C7_NoPathUnreachable ==
    ValidInput =>
        /\ pc # "nopath"
        /\ (pc = "trace" /\ i > 0 /\ j > 0) => Chosen(i, j) # NoDir

\* A valid call in the middle of its traceback, at an interior cell that
\* only one candidate reproduces.
C7_Witness ==
    /\ ValidInput
    /\ pc = "trace" /\ i > 0 /\ j > 0
    /\ Len(moves) >= 1
    /\ Cardinality({d \in {diag, up, left} : Candidate(d, i, j) = G(i, j)}) = 1

\* C9 as stated: the traceback starts with `last` set to a value that is
\* none of diag, up, left, so the first move always closes the initial open
\* segment.
C9_SentinelStart ==
    /\ (pc = "trace" /\ moves = <<>>) => last \notin {diag, up, left}
    /\ Len(moves) >= 1 => moves[1].closed

\* C9 as the code has it: the traceback starts with `last` set to diag; a
\* first move of up or left closes the initial open segment, emitting the
\* empty segment [r, r) x [c, c) with score 0, and a first diag move closes
\* nothing.
C9_StartsAsDiag ==
    /\ (pc = "trace" /\ moves = <<>>) => last = diag
    /\ (pc = "trace" /\ Len(moves) >= 1) =>
          IF moves[1].dir = diag
            THEN /\ ~moves[1].closed
                 /\ (aln = <<>> \/ aln[1].aStart < Len(rSeq))
            ELSE /\ moves[1].closed
                 /\ aln[1] = FeatPair(Len(rSeq), Len(rSeq), Len(qSeq), Len(qSeq), 0)

\* A traceback whose first move was diag and closed nothing, two moves in.
C9_Witness ==
    /\ pc = "trace"
    /\ Len(moves) >= 2
    /\ moves[1].dir = diag
    /\ moves[2].dir = up
    /\ Len(aln) = 1

\* C10: with a letter the alphabet does not recognise, alignLetters raises
\* no error: the grid is built with the affected interior cells left at
\* zero, and a traceback step at such a cell leaves i and j alone.
C10_UnrecognisedPassThrough ==
    (ValidMatrix /\ ~AllRecognised) =>
        /\ pc \notin {"panic", "ErrMatrixNotSquare", "nopath"}
        /\ pc \in {"begin", "trace", "done"} =>
              \A ii \in 1..(R - 1), jj \in 1..(C - 1) :
                  (RVal(ii) < 0 \/ QVal(jj) < 0) => G(ii, jj) = 0

\* C11: for every input whose letters are all recognised the traceback loop
\* terminates: an iteration can always be taken or the loop is left, every
\* iteration lowers i, j or both so that i + j strictly decreases, at most
\* r + c iterations are made, and the loop is left with i = 0 or j = 0 and
\* the final open segment [i, maxI) x [j, maxJ) emitted.
C11_TracebackTerminates ==
    /\ [](((pc = "trace" /\ AllRecognised) => ENABLED <<AlignNext>>_vars))
    /\ [][(pc = "trace" /\ AllRecognised) =>
            \/ /\ pc' = "trace"
               /\ i > 0 /\ j > 0
               /\ i' <= i /\ j' <= j /\ i' + j' < i + j
               /\ i' >= 0 /\ j' >= 0
               /\ Len(moves') = Len(moves) + 1
               /\ Len(moves') <= Len(rSeq) + Len(qSeq)
            \/ /\ pc' = "done"
               /\ i = 0 \/ j = 0
               /\ \E n \in 1..Len(aln') :
                     aln'[n] = FeatPair(i, maxI, j, maxJ, score)]_vars

\* A finished call on recognised letters whose traceback took the longest
\* walk the bounds allow, with up and left moves only.
C11_Witness ==
    /\ pc = "done" /\ AllRecognised
    /\ Len(rSeq) = MaxLen /\ Len(qSeq) = MaxLen
    /\ Len(moves) = Len(rSeq) + Len(qSeq) - 1
    /\ i = 0 \/ j = 0

====
